---- MODULE Spec2Model ----
(***************************************************************************)
(* Model of graph.py: a knowledge graph of products, categories and tags   *)
(* built from CSV rows, and the substitute search on it (breadth-first     *)
(* discovery, constraint filter, scoring, explanation, ranking).           *)
(*                                                                         *)
(* Every text (a CSV field, a node key, a brand, a tag) is a sequence of   *)
(* one-character strings, so that lower(), split(";") and float() are      *)
(* computed character by character as Python computes them.  All node      *)
(* keys live in one key space, as in networkx: a product id, a category    *)
(* name and a tag name that are the same text are the same node.           *)
(***************************************************************************)
EXTENDS Integers, Sequences, FiniteSets, TLC

VARIABLES file, status, graph, last

vars == <<file, status, graph, last>>

(***************************************************************************)
(* Texts                                                                   *)
(***************************************************************************)
Digits == {"0", "1", "2", "3", "4", "5", "6", "7", "8", "9"}

DigitVal(c) ==
  CASE c = "0" -> 0 [] c = "1" -> 1 [] c = "2" -> 2 [] c = "3" -> 3
    [] c = "4" -> 4 [] c = "5" -> 5 [] c = "6" -> 6 [] c = "7" -> 7
    [] c = "8" -> 8 [] c = "9" -> 9

\* str.lower() on one character (the letters the rows use).
LowerChar(c) ==
  CASE c = "T" -> "t" [] c = "R" -> "r" [] c = "U" -> "u" [] c = "E" -> "e"
    [] c = "F" -> "f" [] c = "A" -> "a" [] c = "L" -> "l" [] c = "S" -> "s"
    [] c = "Y" -> "y" [] c = "X" -> "x"
    [] OTHER -> c

\* row["stock"].lower()
Lower(text) == [i \in 1..Len(text) |-> LowerChar(text[i])]

\* row["stock"].lower() == "true"
ParseStock(text) == Lower(text) = <<"t", "r", "u", "e">>

\* row["tags"].split(";"): the pieces between separators, empty pieces kept,
\* nothing trimmed; the empty text splits into one empty piece.
RECURSIVE SplitFrom(_, _, _)
SplitFrom(text, i, piece) ==
  IF i > Len(text) THEN <<piece>>
  ELSE IF text[i] = ";" THEN <<piece>> \o SplitFrom(text, i + 1, <<>>)
  ELSE SplitFrom(text, i + 1, Append(piece, text[i]))

Split(text) == SplitFrom(text, 1, <<>>)

\* float(row["price"]): of the texts float() accepts, the rows use digits
\* with an optional fraction of at most one digit; on the other texts of
\* the rows (letters, the empty text) float() raises ValueError.
RECURSIVE AllDigits(_)
AllDigits(text) ==
  text = <<>> \/ (Head(text) \in Digits /\ AllDigits(Tail(text)))

DotAt(text) ==
  IF \E i \in 1..Len(text) : text[i] = "."
  THEN CHOOSE i \in 1..Len(text) :
         text[i] = "." /\ \A j \in 1..(i - 1) : text[j] # "."
  ELSE 0

IntPart(text) ==
  IF DotAt(text) = 0 THEN text ELSE SubSeq(text, 1, DotAt(text) - 1)

FracPart(text) ==
  IF DotAt(text) = 0 THEN <<>> ELSE SubSeq(text, DotAt(text) + 1, Len(text))

IsFloat(text) ==
  /\ AllDigits(IntPart(text))
  /\ AllDigits(FracPart(text))
  /\ Len(IntPart(text)) + Len(FracPart(text)) > 0
  /\ Len(FracPart(text)) <= 1

RECURSIVE DecVal(_, _)
DecVal(text, acc) ==
  IF text = <<>> THEN acc
  ELSE DecVal(Tail(text), 10 * acc + DigitVal(Head(text)))

\* The value of float(text), in tenths (prices carry at most one decimal).
ParseFloat(text) ==
  10 * DecVal(IntPart(text), 0) + DecVal(FracPart(text), 0)

(***************************************************************************)
(* The graph: networkx.Graph() keeps one attribute dict per node, and per  *)
(* node its neighbours in the order the edges were first added; an edge    *)
(* is undirected and carries one relation label.                           *)
(***************************************************************************)
EmptyGraph ==
  [node |-> [n \in {} |-> 0], adj |-> [n \in {} |-> <<>>], rel |-> [e \in {} |-> ""]]

Nodes(G) == DOMAIN G.node

InSeq(x, s) == \E i \in 1..Len(s) : s[i] = x

\* graph.add_node(n, **attrs): a new node gets the attributes and an empty
\* neighbour list; an existing node has its attributes updated (here every
\* key is given again) and keeps its edges.
AddNode(G, n, attrs) ==
  [G EXCEPT
     !.node = [x \in DOMAIN G.node \cup {n} |->
                 IF x = n THEN attrs ELSE G.node[x]],
     !.adj = [x \in DOMAIN G.adj \cup {n} |->
                 IF x \in DOMAIN G.adj THEN G.adj[x] ELSE <<>>]]

\* graph.add_edge(u, v, relation=r) between two existing nodes: each is
\* appended to the other's neighbours unless already there, and the edge's
\* relation is set (overwriting the relation of an existing edge).
AddEdge(G, u, v, r) ==
  LET a1 == [G.adj EXCEPT ![u] = IF InSeq(v, @) THEN @ ELSE Append(@, v)]
      a2 == [a1 EXCEPT ![v] = IF InSeq(u, @) THEN @ ELSE Append(@, u)]
  IN [G EXCEPT
        !.adj = a2,
        !.rel = [e \in DOMAIN G.rel \cup {{u, v}} |->
                   IF e = {u, v} THEN r ELSE G.rel[e]]]

\* if name not in graph.nodes: graph.add_node(name, type=kind)
EnsureNode(G, name, kind) ==
  IF name \in Nodes(G) THEN G ELSE AddNode(G, name, [type |-> kind])

\* for tag in tags: ensure the tag node, add the HAS TAG edge
RECURSIVE AddTags(_, _, _)
AddTags(G, productId, tags) ==
  IF tags = <<>> THEN G
  ELSE AddTags(AddEdge(EnsureNode(G, Head(tags), "tag"),
                       productId, Head(tags), "HAS TAG"),
               productId, Tail(tags))

\* The body of the loop over the rows, for a row whose price parses.
AddRow(G, row) ==
  LET product == [type |-> "product",
                  brand |-> row.brand,
                  category |-> row.category,
                  price |-> ParseFloat(row.price),
                  stock |-> ParseStock(row.stock),
                  tags |-> Split(row.tags)]
      g1 == AddNode(G, row.id, product)
      g2 == EnsureNode(g1, row.category, "category")
      g3 == AddEdge(g2, row.id, row.category, "IS A")
  IN AddTags(g3, row.id, product.tags)

\* createGraph: the rows in order; float() raising on a row ends the build
\* with the exception, and no graph is returned.
RECURSIVE BuildFrom(_, _)
BuildFrom(G, rows) ==
  IF rows = <<>> THEN [ok |-> TRUE, graph |-> G]
  ELSE IF ~IsFloat(Head(rows).price) THEN [ok |-> FALSE, graph |-> EmptyGraph]
  ELSE BuildFrom(AddRow(G, Head(rows)), Tail(rows))

createGraph(rows) == BuildFrom(EmptyGraph, rows)

(***************************************************************************)
(* The queries                                                             *)
(***************************************************************************)
IsProduct(G, n) == n \in Nodes(G) /\ G.node[n].type = "product"

Products(G) == {n \in Nodes(G) : G.node[n].type = "product"}

\* graph.neighbors(node), in iteration order
Neighbors(G, n) == G.adj[n]

\* The while loop of bfsSearch: pop the left end of the queue, skip a node
\* already visited, else mark it, record it when it is a product other than
\* the start, and append its neighbours not yet visited (a node may be queued
\* several times before its first visit).
RECURSIVE BfsLoop(_, _, _, _, _)
BfsLoop(G, startProduct, queue, visited, productList) ==
  IF queue = <<>> THEN productList
  ELSE LET node == Head(queue)
           rest == Tail(queue)
       IN IF node \in visited
          THEN BfsLoop(G, startProduct, rest, visited, productList)
          ELSE LET seen == visited \cup {node}
                   out == IF node # startProduct /\ G.node[node].type = "product"
                          THEN Append(productList, node)
                          ELSE productList
                   more == SelectSeq(Neighbors(G, node), LAMBDA m : m \notin seen)
               IN BfsLoop(G, startProduct, rest \o more, seen, out)

\* A bfsSearch that pops the right end of the queue (pop() for popleft()).
RECURSIVE BfsLoopLifo(_, _, _, _, _)
BfsLoopLifo(G, startProduct, queue, visited, productList) ==
  IF queue = <<>> THEN productList
  ELSE LET node == queue[Len(queue)]
           rest == SubSeq(queue, 1, Len(queue) - 1)
       IN IF node \in visited
          THEN BfsLoopLifo(G, startProduct, rest, visited, productList)
          ELSE LET seen == visited \cup {node}
                   out == IF node # startProduct /\ G.node[node].type = "product"
                          THEN Append(productList, node)
                          ELSE productList
                   more == SelectSeq(Neighbors(G, node), LAMBDA m : m \notin seen)
               IN BfsLoopLifo(G, startProduct, rest \o more, seen, out)

bfsSearchLifo(G, startProduct) ==
  BfsLoopLifo(G, startProduct, <<startProduct>>, {}, <<>>)

bfsSearch(G, startProduct) == BfsLoop(G, startProduct, <<startProduct>>, {}, <<>>)

\* An optional brand: None is <<>>, a given brand b (the empty text
\* included) is <<b>>.
None == <<>>

Some(b) == <<b>>

\* A filter whose price test is >= for >.
checkConstraintsStrict(G, productId, maxPrice, requiredTags, preferredBrand) ==
  LET data == G.node[productId]
  IN IF data.stock = FALSE THEN FALSE
     ELSE IF data.price >= maxPrice THEN FALSE
     ELSE IF \E i \in 1..Len(requiredTags) : ~InSeq(requiredTags[i], data.tags)
          THEN FALSE
     ELSE IF preferredBrand # None /\ preferredBrand[1] # <<>>
             /\ data.brand # preferredBrand[1]
          THEN FALSE
     ELSE TRUE

checkConstraints(G, productId, maxPrice, requiredTags, preferredBrand) ==
  LET data == G.node[productId]
  IN IF data.stock = FALSE THEN FALSE
     ELSE IF data.price > maxPrice THEN FALSE
     ELSE IF \E i \in 1..Len(requiredTags) : ~InSeq(requiredTags[i], data.tags)
          THEN FALSE
     ELSE IF preferredBrand # None /\ preferredBrand[1] # <<>>
             /\ data.brand # preferredBrand[1]
          THEN FALSE
     ELSE TRUE

\* for neighbor in graph.neighbors(requestedCategory):
\*     if neighbor == candidateCategory: score += 1; break
RECURSIVE SimilarCategory(_, _)
SimilarCategory(neighbors, candidateCategory) ==
  IF neighbors = <<>> THEN 0
  ELSE IF Head(neighbors) = candidateCategory THEN 1
  ELSE SimilarCategory(Tail(neighbors), candidateCategory)

\* A score whose category term looks for a neighbour the two category nodes
\* share, where the code looks for an edge between them.
scoreCandidateSharedNeighbour(G, requestedProduct, candidateProduct) ==
  LET requestedData == G.node[requestedProduct]
      candidateData == G.node[candidateProduct]
      requestedCategory == requestedData.category
      candidateCategory == candidateData.category
      s1 == IF requestedCategory = candidateCategory THEN 3
            ELSE IF \E i \in 1..Len(Neighbors(G, requestedCategory)) :
                      InSeq(candidateCategory,
                            Neighbors(G, Neighbors(G, requestedCategory)[i]))
                 THEN 1 ELSE 0
      s2 == IF requestedData.brand = candidateData.brand THEN s1 + 1 ELSE s1
      s3 == IF candidateData.price < requestedData.price THEN s2 + 1 ELSE s2
  IN s3

scoreCandidate(G, requestedProduct, candidateProduct) ==
  LET requestedData == G.node[requestedProduct]
      candidateData == G.node[candidateProduct]
      requestedCategory == requestedData.category
      candidateCategory == candidateData.category
      s1 == IF requestedCategory = candidateCategory THEN 3
            ELSE SimilarCategory(Neighbors(G, requestedCategory), candidateCategory)
      s2 == IF requestedData.brand = candidateData.brand THEN s1 + 1 ELSE s1
      s3 == IF candidateData.price < requestedData.price THEN s2 + 1 ELSE s2
  IN s3

\* An explanation that appends the brand label before the price label.
explainRulesBrandFirst(G, requestedProduct, candidateProduct, requiredTags) ==
  LET requestedData == G.node[requestedProduct]
      candidateData == G.node[candidateProduct]
      r1 == IF requestedData.category = candidateData.category
            THEN <<"Same Category">> ELSE <<"Similar Category">>
      r2 == IF \A i \in 1..Len(requiredTags) : InSeq(requiredTags[i], candidateData.tags)
            THEN Append(r1, "All tags matched") ELSE r1
      r3 == IF candidateData.brand = requestedData.brand
            THEN Append(r2, "Same brand") ELSE Append(r2, "Different brand")
      r4 == IF candidateData.price < requestedData.price
            THEN Append(r3, "Cheaper than original") ELSE r3
  IN r4

explainRules(G, requestedProduct, candidateProduct, requiredTags) ==
  LET requestedData == G.node[requestedProduct]
      candidateData == G.node[candidateProduct]
      r1 == IF requestedData.category = candidateData.category
            THEN <<"Same Category">> ELSE <<"Similar Category">>
      r2 == IF \A i \in 1..Len(requiredTags) : InSeq(requiredTags[i], candidateData.tags)
            THEN Append(r1, "All tags matched") ELSE r1
      r3 == IF candidateData.price < requestedData.price
            THEN Append(r2, "Cheaper than original") ELSE r2
      r4 == IF candidateData.brand = requestedData.brand
            THEN Append(r3, "Same brand") ELSE Append(r3, "Different brand")
  IN r4

\* list.sort(key=lambda x: x[1], reverse=True): Python reverses the list,
\* sorts it stably into ascending key order (here by insertion, each element
\* placed after the elements whose key is not greater), and reverses it again.
Reverse(s) == [i \in 1..Len(s) |-> s[Len(s) + 1 - i]]

RECURSIVE InsertByScore(_, _)
InsertByScore(sorted, x) ==
  IF sorted = <<>> THEN <<x>>
  ELSE IF x[2] < sorted[Len(sorted)][2]
       THEN Append(InsertByScore(SubSeq(sorted, 1, Len(sorted) - 1), x),
                   sorted[Len(sorted)])
       ELSE Append(sorted, x)

RECURSIVE SortAscending(_, _)
SortAscending(list, sorted) ==
  IF list = <<>> THEN sorted
  ELSE SortAscending(Tail(list), InsertByScore(sorted, Head(list)))

\* A sort that orders by score but reverses only the sorted list, so that
\* equal scores come out in reverse order.
SortByScoreUnstable(list) == Reverse(SortAscending(list, <<>>))

SortByScoreReverse(list) == Reverse(SortAscending(Reverse(list), <<>>))

\* validList[:3]
TopN == 3

Truncate(list) == SubSeq(list, 1, IF Len(list) < TopN THEN Len(list) ELSE TopN)

ExactMatch == <<"E", "X", "A", "C", "T", "_", "M", "A", "T", "C", "H">>

SentinelScore == 999

Sentinel(requestedProduct) ==
  <<ExactMatch, requestedProduct, SentinelScore, <<"product_in_stock">>>>

\* The loop over the candidates: the filter, then score and rules for the
\* ones it accepts.
RECURSIVE ValidList(_, _, _, _, _, _)
ValidList(G, requestedProduct, candidates, maxPrice, requiredTags, preferredBrand) ==
  IF candidates = <<>> THEN <<>>
  ELSE LET productId == Head(candidates)
           rest == ValidList(G, requestedProduct, Tail(candidates),
                             maxPrice, requiredTags, preferredBrand)
       IN IF checkConstraints(G, productId, maxPrice, requiredTags, preferredBrand)
          THEN <<<<productId,
                   scoreCandidate(G, requestedProduct, productId),
                   explainRules(G, requestedProduct, productId, requiredTags)>>>>
               \o rest
          ELSE rest

\* What one call of findAlternatives does: what it returns (ret) or raises
\* (raised), and which steps ran: whether the traversal ran and the
\* candidates it gave, and the products checkConstraints (filtered) and
\* scoreCandidate/explainRules (scored) were called on, in call order.
Returned(ret) ==
  [raised |-> "", ret |-> ret, traversed |-> FALSE,
   candidates |-> <<>>, filtered |-> <<>>, scored |-> <<>>]

Raised(error) == [Returned(<<>>) EXCEPT !.raised = error]

\* The search for a requested product that is out of stock: traversal,
\* filter and scores, sort, truncation.
Search(G, requestedProduct, maxPrice, requiredTags, preferredBrand) ==
  LET candidateProducts == bfsSearch(G, requestedProduct)
      validList == ValidList(G, requestedProduct, candidateProducts,
                             maxPrice, requiredTags, preferredBrand)
  IN [raised |-> "",
      ret |-> Truncate(SortByScoreReverse(validList)),
      traversed |-> TRUE,
      candidates |-> candidateProducts,
      filtered |-> candidateProducts,
      scored |-> [i \in 1..Len(validList) |-> validList[i][1]]]

\* findAlternatives without the test for an unknown id: reading the node's
\* attributes raises KeyError.
findAlternativesUnchecked(G, requestedProduct, maxPrice, requiredTags, preferredBrand) ==
  IF requestedProduct \notin Nodes(G) THEN Raised("KeyError")
  ELSE IF G.node[requestedProduct].type # "product" THEN Raised("KeyError")
  ELSE IF G.node[requestedProduct].stock
       THEN Returned(<<Sentinel(requestedProduct)>>)
  ELSE Search(G, requestedProduct, maxPrice, requiredTags, preferredBrand)

\* findAlternatives without the return for a product in stock.
findAlternativesAlwaysSearching(G, requestedProduct, maxPrice, requiredTags, preferredBrand) ==
  IF requestedProduct \notin Nodes(G) THEN Returned(<<>>)
  ELSE IF G.node[requestedProduct].type # "product" THEN Raised("KeyError")
  ELSE Search(G, requestedProduct, maxPrice, requiredTags, preferredBrand)

\* findAlternatives: an id that is no node gives the empty list; a node that
\* is no product has no "stock" attribute, and reading it raises KeyError; a
\* product in stock gives the sentinel; else the search.
findAlternatives(G, requestedProduct, maxPrice, requiredTags, preferredBrand) ==
  IF requestedProduct \notin Nodes(G) THEN Returned(<<>>)
  ELSE IF G.node[requestedProduct].type # "product" THEN Raised("KeyError")
  ELSE IF G.node[requestedProduct].stock
       THEN Returned(<<Sentinel(requestedProduct)>>)
  ELSE Search(G, requestedProduct, maxPrice, requiredTags, preferredBrand)

(***************************************************************************)
(* The inputs: the rows of the CSV file and the arguments of the queries   *)
(***************************************************************************)
P1 == <<"p", "1">>
P2 == <<"p", "2">>
P3 == <<"p", "3">>
P9 == <<"p", "9">>
Shoes == <<"s", "h">>
Boots == <<"b", "t">>
BrandX == <<"X">>
BrandY == <<"Y">>
TagR == <<"r">>
TagL == <<"l">>

Row(id, category, brand, price, stock, tags) ==
  [id |-> id, category |-> category, brand |-> brand,
   price |-> price, stock |-> stock, tags |-> tags]

\* The rows a file is made of: an out-of-stock product; an in-stock one of
\* the same category and brand, cheaper; one of another category; a second
\* row for the first id, with another category and an empty tags field; a
\* product whose id is the name of a category, with an untrimmed tag; a row
\* whose price is no number; a row whose stock token is neither true nor
\* false, with a separator ending its tags field.
RawRows ==
  { Row(P1, Shoes, BrandX, <<"5", "0">>, <<"f", "a", "l", "s", "e">>, <<"r">>),
    Row(P2, Shoes, BrandX, <<"4", "0">>, <<"T", "r", "u", "e">>, <<"r", ";", "l">>),
    Row(P3, Boots, BrandY, <<"6", "0", ".", "5">>, <<"t", "r", "u", "e">>, <<"l">>),
    Row(P1, Boots, BrandY, <<"5", "0">>, <<"F", "A", "L", "S", "E">>, <<>>),
    Row(Boots, Shoes, BrandY, <<"4", "0", ".", "0">>, <<"t", "r", "u", "e">>, <<" ", "r">>),
    Row(P3, Boots, BrandX, <<"a", "b", "c">>, <<"t", "r", "u", "e">>, <<"r">>),
    Row(P3, Shoes, BrandY, <<"6", "0">>, <<"y", "e", "s">>, <<"r", ";">>) }

MaxRows == 3

RECURSIVE SeqsUpTo(_, _)
SeqsUpTo(S, n) ==
  IF n = 0 THEN {<<>>}
  ELSE LET shorter == SeqsUpTo(S, n - 1)
       IN shorter \cup {Append(s, x) : s \in {t \in shorter : Len(t) = n - 1}, x \in S}

RawFiles == SeqsUpTo(RawRows, MaxRows)

\* A catalogue: the out-of-stock product P1, then in-stock products q1, q2,
\* ... of its brand, each in its category or in another one, cheaper or
\* dearer, all sharing its tag.
MaxCandidates == 4

CandidateId(i) == <<"q", <<"1", "2", "3", "4", "5", "6", "7", "8", "9">>[i]>>

CandidateKinds == {Shoes, Boots} \X {<<"4", "0">>, <<"6", "0">>}

CandidateRow(i, kind) ==
  Row(CandidateId(i), kind[1], BrandX, kind[2], <<"t", "r", "u", "e">>, <<"r", ";", "l">>)

CatalogueFiles ==
  { <<Row(P1, Shoes, BrandX, <<"5", "0">>, <<"f", "a", "l", "s", "e">>, <<"r">>)>>
      \o [i \in 1..Len(kinds) |-> CandidateRow(i, kinds[i])]
    : kinds \in SeqsUpTo(CandidateKinds, MaxCandidates) }

\* The query arguments; prices are in tenths, as ParseFloat gives them.
Requested == {P1, P2, P3, Boots, P9}
MaxPrices == {400, 1000}
RequiredTags == {<<>>, <<TagR, TagL>>}
PreferredBrands == {None, Some(<<>>), Some(BrandX)}

(***************************************************************************)
(* The state machine: a run of the application builds the graph from the   *)
(* file, one function is called on it, and the next run starts over.       *)
(***************************************************************************)
NoCall == [op |-> "none"]

Init ==
  /\ file \in RawFiles
  /\ status = "start"
  /\ graph = EmptyGraph
  /\ last = NoCall

InitCatalogue ==
  /\ file \in CatalogueFiles
  /\ status = "start"
  /\ graph = EmptyGraph
  /\ last = NoCall

CreateGraph ==
  /\ status = "start"
  /\ LET built == createGraph(file)
     IN /\ status' = IF built.ok THEN "built" ELSE "error"
        /\ graph' = built.graph
  /\ UNCHANGED <<file, last>>

Idle == status = "built" /\ last.op = "none"

BfsSearch ==
  /\ Idle
  /\ \E start \in Nodes(graph) :
       last' = [op |-> "bfsSearch", start |-> start,
                ret |-> bfsSearch(graph, start)]
  /\ UNCHANGED <<file, status, graph>>

CheckConstraints ==
  /\ Idle
  /\ \E productId \in Products(graph), maxPrice \in MaxPrices,
        requiredTags \in RequiredTags, preferredBrand \in PreferredBrands :
       last' = [op |-> "checkConstraints", productId |-> productId,
                maxPrice |-> maxPrice, requiredTags |-> requiredTags,
                preferredBrand |-> preferredBrand,
                ret |-> checkConstraints(graph, productId, maxPrice,
                                         requiredTags, preferredBrand)]
  /\ UNCHANGED <<file, status, graph>>

ScoreCandidate ==
  /\ Idle
  /\ \E requested \in Products(graph), candidate \in Products(graph) :
       last' = [op |-> "scoreCandidate", requested |-> requested,
                candidate |-> candidate,
                ret |-> scoreCandidate(graph, requested, candidate)]
  /\ UNCHANGED <<file, status, graph>>

ExplainRules ==
  /\ Idle
  /\ \E requested \in Products(graph), candidate \in Products(graph),
        requiredTags \in RequiredTags :
       last' = [op |-> "explainRules", requested |-> requested,
                candidate |-> candidate, requiredTags |-> requiredTags,
                ret |-> explainRules(graph, requested, candidate, requiredTags)]
  /\ UNCHANGED <<file, status, graph>>

FindAlternatives ==
  /\ Idle
  /\ \E requested \in Requested, maxPrice \in MaxPrices,
        requiredTags \in RequiredTags, preferredBrand \in PreferredBrands :
       last' = [op |-> "findAlternatives", requested |-> requested,
                maxPrice |-> maxPrice, requiredTags |-> requiredTags,
                preferredBrand |-> preferredBrand,
                out |-> findAlternatives(graph, requested, maxPrice,
                                         requiredTags, preferredBrand)]
  /\ UNCHANGED <<file, status, graph>>

Rerun ==
  /\ status = "error" \/ last.op # "none"
  /\ status' = "start"
  /\ graph' = EmptyGraph
  /\ last' = NoCall
  /\ UNCHANGED file

Next ==
  \/ CreateGraph
  \/ BfsSearch
  \/ CheckConstraints
  \/ ScoreCandidate
  \/ ExplainRules
  \/ FindAlternatives
  \/ Rerun

Spec == Init /\ [][Next]_vars

NextCatalogue ==
  \/ CreateGraph
  \/ FindAlternatives
  \/ Rerun

SpecCatalogue == InitCatalogue /\ [][NextCatalogue]_vars

(***************************************************************************)
(* Notions the properties are stated with, defined on the graph's edge     *)
(* set and not on the neighbour lists the code walks.                      *)
(***************************************************************************)
Edges(G) == DOMAIN G.rel

Linked(G, u, v) == {u, v} \in Edges(G)

\* The nodes within k hops of s.
RECURSIVE Ball(_, _, _)
Ball(G, s, k) ==
  IF k = 0 THEN {s}
  ELSE LET inner == Ball(G, s, k - 1)
       IN inner \cup {n \in Nodes(G) : \E m \in inner : Linked(G, m, n)}

Reachable(G, s) == Ball(G, s, Cardinality(Nodes(G)))

\* The hop distance from s to a node reachable from it.
Dist(G, s, n) ==
  CHOOSE k \in 0..Cardinality(Nodes(G)) :
    /\ n \in Ball(G, s, k)
    /\ \A j \in 0..(k - 1) : n \notin Ball(G, s, j)

Range(s) == {s[i] : i \in 1..Len(s)}

NoDuplicates(s) == \A i, j \in 1..Len(s) : s[i] = s[j] => i = j

\* The position of x in a sequence without duplicates that holds it.
Pos(x, s) == CHOOSE i \in 1..Len(s) : s[i] = x

Called(op) == status = "built" /\ last.op = op

\* C9: bfsSearch returns exactly the product nodes reachable from the start,
\* the start excluded, each once and no category or tag node, and a product
\* nearer to the start (in hops) never comes after a farther one.
BfsListsReachableProductsByDistance ==
  Called("bfsSearch") =>
    LET ret == last.ret
        s == last.start
    IN /\ NoDuplicates(ret)
       /\ Range(ret) = (Reachable(graph, s) \cap Products(graph)) \ {s}
       /\ \A i, j \in 1..Len(ret) :
            i < j => Dist(graph, s, ret[i]) <= Dist(graph, s, ret[j])

\* A traversal that returns products at two different distances, one of
\* which has two neighbours one hop nearer to the start, so that the queue
\* held it twice before its first visit.
BfsWitness ==
  /\ Called("bfsSearch")
  /\ IsProduct(graph, last.start)
  /\ \E i, j \in 1..Len(last.ret) :
       Dist(graph, last.start, last.ret[i]) < Dist(graph, last.start, last.ret[j])
  /\ \E i \in 1..Len(last.ret) :
       LET n == last.ret[i]
           d == Dist(graph, last.start, n)
       IN Cardinality({m \in Nodes(graph) :
            Linked(graph, m, n) /\ Dist(graph, last.start, m) = d - 1
              /\ m \in Reachable(graph, last.start)}) >= 2

(***************************************************************************)
(* findAlternatives                                                        *)
(***************************************************************************)
\* The call is a search: the requested product is a product of the graph
\* and out of stock.
Searched ==
  /\ Called("findAlternatives")
  /\ IsProduct(graph, last.requested)
  /\ ~graph.node[last.requested].stock

\* The discovered candidates the filter accepts, as a set.
Valid ==
  {c \in Range(last.out.candidates) :
     checkConstraints(graph, c, last.maxPrice, last.requiredTags, last.preferredBrand)}

\* Candidate c ranks before candidate d: a higher score, or the same score
\* and discovered earlier.
RanksBefore(c, d) ==
  LET sc == scoreCandidate(graph, last.requested, c)
      sd == scoreCandidate(graph, last.requested, d)
  IN sc > sd \/ (sc = sd /\ Pos(c, last.out.candidates) < Pos(d, last.out.candidates))

\* C1: for a requested product that is in the graph and out of stock, the
\* result holds only discovered candidates that pass the filter, each once
\* and with its score, in descending order of score and, among equal scores,
\* in discovery order; it has at most 3 entries, all the valid candidates
\* when there are at most 3, and else the 3 that rank first, so that no
\* valid candidate left out has a strictly higher score than one in it.
ResultIsTopThreeByScoreThenDiscovery ==
  Searched =>
    LET ret == last.out.ret
        ids == [i \in 1..Len(ret) |-> ret[i][1]]
    IN /\ Len(ret) <= 3
       /\ NoDuplicates(ids)
       /\ Range(ids) \subseteq Valid
       /\ Len(ret) = IF Cardinality(Valid) < 3 THEN Cardinality(Valid) ELSE 3
       /\ \A i \in 1..Len(ret) :
            ret[i][2] = scoreCandidate(graph, last.requested, ids[i])
       /\ \A i, j \in 1..Len(ret) : i < j => RanksBefore(ids[i], ids[j])
       /\ \A v \in Valid \ Range(ids) : \A i \in 1..Len(ret) :
            /\ RanksBefore(ids[i], v)
            /\ scoreCandidate(graph, last.requested, v) <= ret[i][2]

\* A search with more than 3 valid candidates, discovered in an order that
\* is not the order of their scores, where two entries of the result have
\* the same score and a candidate left out has the score of the last entry.
RankingWitness ==
  /\ Searched
  /\ Cardinality(Valid) > 3
  /\ Len(last.out.ret) = 3
  /\ \E i \in 1..2 : last.out.ret[i][2] = last.out.ret[i + 1][2]
  /\ \E v \in Valid \ {last.out.ret[i][1] : i \in 1..3} :
       scoreCandidate(graph, last.requested, v) = last.out.ret[3][2]
  /\ \E i \in 1..3 :
       Pos(last.out.ret[i][1], last.out.candidates) > i

\* C2: when the requested product is in the graph and in stock, the result
\* is the one in-stock sentinel, whatever the other arguments, and neither
\* the traversal nor the filter nor the scorer has run.
InStockGivesSentinelOnly ==
  (Called("findAlternatives") /\ IsProduct(graph, last.requested)
     /\ graph.node[last.requested].stock)
  => /\ last.out.raised = ""
     /\ last.out.ret =
          << <<ExactMatch, last.requested, 999, <<"product_in_stock">>>> >>
     /\ ~last.out.traversed
     /\ last.out.filtered = <<>>
     /\ last.out.scored = <<>>

\* A call for a product in stock that other products can be reached from,
\* with arguments the product itself does not satisfy.
InStockWitness ==
  /\ Called("findAlternatives")
  /\ IsProduct(graph, last.requested)
  /\ graph.node[last.requested].stock
  /\ bfsSearch(graph, last.requested) # <<>>
  /\ last.requiredTags # <<>>
  /\ last.preferredBrand # None
  /\ ~checkConstraints(graph, last.requested, last.maxPrice,
                       last.requiredTags, last.preferredBrand)

\* C3: when the requested id is no node of the graph, findAlternatives
\* returns the empty sequence and raises nothing, whatever the graph and
\* the other arguments.
UnknownIdGivesEmpty ==
  (Called("findAlternatives") /\ last.requested \notin Nodes(graph))
  => /\ last.out.raised = ""
     /\ last.out.ret = <<>>
     /\ ~last.out.traversed

\* A call for an id that is no node of a graph that has in-stock products.
UnknownIdWitness ==
  /\ Called("findAlternatives")
  /\ last.requested \notin Nodes(graph)
  /\ \E p \in Products(graph) : graph.node[p].stock
  /\ last.preferredBrand = Some(BrandX)

(***************************************************************************)
(* checkConstraints                                                        *)
(***************************************************************************)
\* The four constraints, on the product's attributes.
Satisfies(data, maxPrice, requiredTags, preferredBrand) ==
  /\ data.stock
  /\ ~(data.price > maxPrice)
  /\ Range(requiredTags) \subseteq Range(data.tags)
  /\ preferredBrand \in {None, Some(<<>>), Some(data.brand)}

\* C4: the filter rejects a product exactly when it is out of stock, or its
\* price exceeds maxPrice (an equal price passes), or a required tag is
\* missing from its tags (no required tag: no rejection), or a non-empty
\* preferred brand differs from its brand; and findAlternatives scores a
\* discovered candidate only if the filter accepts it, so that every entry
\* of a result that is not the sentinel satisfies the four constraints.
FilterRejectsExactlyOnTheFourConstraints ==
  /\ Called("checkConstraints") =>
       (last.ret <=> Satisfies(graph.node[last.productId], last.maxPrice,
                               last.requiredTags, last.preferredBrand))
  /\ Searched =>
       /\ \A i \in 1..Len(last.out.scored) :
            /\ InSeq(last.out.scored[i], last.out.filtered)
            /\ Satisfies(graph.node[last.out.scored[i]], last.maxPrice,
                         last.requiredTags, last.preferredBrand)
       /\ \A i \in 1..Len(last.out.ret) :
            /\ InSeq(last.out.ret[i][1], last.out.scored)
            /\ Satisfies(graph.node[last.out.ret[i][1]], last.maxPrice,
                         last.requiredTags, last.preferredBrand)

\* A search that returns a candidate whose price equals maxPrice, under
\* required tags and a preferred brand, and that discovered a candidate the
\* filter rejected, which was not scored.
FilterWitness ==
  /\ Searched
  /\ last.requiredTags # <<>>
  /\ last.preferredBrand = Some(BrandX)
  /\ \E i \in 1..Len(last.out.ret) :
       graph.node[last.out.ret[i][1]].price = last.maxPrice
  /\ \E i \in 1..Len(last.out.filtered) :
       ~InSeq(last.out.filtered[i], last.out.scored)

(***************************************************************************)
(* createGraph                                                             *)
(***************************************************************************)
Built == status = "built"

IncidentEdges(G, n) == {e \in Edges(G) : n \in e}

\* The product ids, the category names and the tag tokens of the rows are
\* three disjoint sets of texts: no two kinds of node share a key.
NoKeyCollision(rows) ==
  LET ids == {rows[i].id : i \in 1..Len(rows)}
      categories == {rows[i].category : i \in 1..Len(rows)}
      tags == UNION {Range(Split(rows[i].tags)) : i \in 1..Len(rows)}
  IN /\ ids \cap categories = {}
     /\ ids \cap tags = {}
     /\ categories \cap tags = {}

\* C5: after the build, also from rows in which a product id repeats, every
\* product node has exactly one IS A edge, to the category of its
\* attributes, one HAS TAG edge per distinct tag of its tags, and no other
\* edge.  (Stated for files whose ids, categories and tags share no key,
\* the case the claim is about; the code fails it there.)
ProductEdgesMatchAttributes ==
  (Built /\ NoKeyCollision(file)) =>
    \A p \in Products(graph) :
      LET data == graph.node[p]
          isA == {e \in IncidentEdges(graph, p) : graph.rel[e] = "IS A"}
          hasTag == {e \in IncidentEdges(graph, p) : graph.rel[e] = "HAS TAG"}
      IN /\ isA = {{p, data.category}}
         /\ hasTag = {{p, t} : t \in Range(data.tags)}
         /\ IncidentEdges(graph, p) = isA \cup hasTag

\* The stock tokens the input format allows: true or false, in any case.
RecognizedStock(text) ==
  Lower(text) \in {<<"t", "r", "u", "e">>, <<"f", "a", "l", "s", "e">>}

Malformed(row) == ~IsFloat(row.price) \/ ~RecognizedStock(row.stock)

\* C8: the build fails, and yields no graph, whenever a row has a price
\* that is no number or a stock token that is neither true nor false: once
\* createGraph has run on a file with such a row, the outcome is the error.
MalformedRowFailsTheBuild ==
  (status # "start" /\ \E i \in 1..Len(file) : Malformed(file[i]))
  => /\ status = "error"
     /\ graph = EmptyGraph

\* A text is trimmed when it neither starts nor ends with a blank.
Trimmed(text) == text = <<>> \/ (text[1] # " " /\ text[Len(text)] # " ")

\* C10: after the build, the tags of every product are trimmed and
\* non-empty, and no tag node has an empty or untrimmed name.
TagsTrimmedAndNonEmpty ==
  Built =>
    /\ \A p \in Products(graph) : \A t \in Range(graph.node[p].tags) :
         t # <<>> /\ Trimmed(t)
    /\ \A n \in Nodes(graph) :
         graph.node[n].type = "tag" => (n # <<>> /\ Trimmed(n))

(***************************************************************************)
(* scoreCandidate and explainRules                                         *)
(***************************************************************************)
Bit(b) == IF b THEN 1 ELSE 0

\* The score with a given category term for two products of different
\* categories.
ScoreWith(similar) ==
  LET requestedData == graph.node[last.requested]
      candidateData == graph.node[last.candidate]
  IN (IF requestedData.category = candidateData.category THEN 3 ELSE Bit(similar))
     + Bit(requestedData.brand = candidateData.brand)
     + Bit(candidateData.price < requestedData.price)

\* Some product has an edge to both nodes.
ShareAProduct(G, u, v) ==
  \E p \in Products(G) : Linked(G, u, p) /\ Linked(G, p, v)

\* C7 as claimed: the category term of two products of different categories
\* is 1 when the two category nodes are linked through a shared product.
ScoreCountsCategoriesSharingAProduct ==
  Called("scoreCandidate") =>
    /\ last.ret = ScoreWith(ShareAProduct(graph,
                              graph.node[last.requested].category,
                              graph.node[last.candidate].category))
    /\ last.ret \in 0..5

\* C7, amended: the score is the category term, plus 1 for equal brands,
\* plus 1 for a candidate strictly cheaper than the requested product; the
\* category term is 3 for equal categories, otherwise 1 when the graph has
\* an edge between the two category nodes themselves, otherwise 0; the
\* score is an integer from 0 to 5.
ScoreCountsCategoriesJoinedByAnEdge ==
  Called("scoreCandidate") =>
    /\ last.ret = ScoreWith(Linked(graph,
                              graph.node[last.requested].category,
                              graph.node[last.candidate].category))
    /\ last.ret \in 0..5

\* A score of two products of different categories whose category nodes
\* are joined by an edge, the candidate being cheaper.
ScoreWitness ==
  /\ Called("scoreCandidate")
  /\ graph.node[last.requested].category # graph.node[last.candidate].category
  /\ Linked(graph, graph.node[last.requested].category,
                   graph.node[last.candidate].category)
  /\ graph.node[last.candidate].price < graph.node[last.requested].price
  /\ last.ret = 2

\* C6 as claimed: the explanation, called on its own, has 3 or 4 entries.
ExplanationHasThreeOrFourEntries ==
  Called("explainRules") => Len(last.ret) \in {3, 4}

\* The explanation of a candidate: the category label, the tag label when
\* every required tag is among the candidate's tags, the price label when
\* the candidate is strictly cheaper, the brand label.
WellFormedRules(rules, requested, candidate, requiredTags) ==
  LET requestedData == graph.node[requested]
      candidateData == graph.node[candidate]
      n == Len(rules)
      tagged == Range(requiredTags) \subseteq Range(candidateData.tags)
      cheaper == candidateData.price < requestedData.price
  IN /\ n = 2 + Bit(tagged) + Bit(cheaper)
     /\ rules[1] = IF requestedData.category = candidateData.category
                   THEN "Same Category" ELSE "Similar Category"
     /\ tagged => rules[2] = "All tags matched"
     /\ cheaper => rules[n - 1] = "Cheaper than original"
     /\ rules[n] = IF requestedData.brand = candidateData.brand
                   THEN "Same brand" ELSE "Different brand"

\* C6, amended: the explanation has 2 to 4 entries, in the fixed order
\* category label, tag-match label (only when every required tag is
\* matched), price label (only when the candidate is cheaper), brand label;
\* inside a result of findAlternatives it has 3 or 4, the tag-match label
\* being always there.
ExplanationHasTwoToFourEntriesInOrder ==
  /\ Called("explainRules") =>
       /\ Len(last.ret) \in 2..4
       /\ WellFormedRules(last.ret, last.requested, last.candidate,
                          last.requiredTags)
  /\ Searched =>
       \A i \in 1..Len(last.out.ret) :
         /\ Len(last.out.ret[i][3]) \in {3, 4}
         /\ WellFormedRules(last.out.ret[i][3], last.requested,
                            last.out.ret[i][1], last.requiredTags)

\* An explanation of 2 entries: a required tag is missing and the candidate
\* is not cheaper.
ExplanationWitness ==
  /\ Called("explainRules")
  /\ last.requested # last.candidate
  /\ last.ret = <<"Similar Category", "Different brand">>

====
